---- MODULE Spec2Model ----
(***************************************************************************)
(* Model of autoteve (src/main.py): a sequential script that logs in to    *)
(* teveclub.hu, feeds and teaches the pet, logs out, and mails the         *)
(* operator when something fails.                                          *)
(*                                                                         *)
(* Conventions.                                                            *)
(*  - A Python str is a sequence of tokens (words or single characters);   *)
(*    "" is <<>>.  Substring and regex searches work on these sequences.   *)
(*  - An Optional value is a sequence of length at most one: None is <<>>, *)
(*    a value v is <<v>>.                                                  *)
(*  - A dict is a record; a missing key is a missing field (KeyError).     *)
(*  - An exception is a record [type, origin]; the pending exception with  *)
(*    its __context__ chain is a sequence, newest first.                   *)
(*  - The environment (web site, mail relay, config file) is chosen        *)
(*    nondeterministically, per call, from small sets.                     *)
(***************************************************************************)
EXTENDS Integers, Sequences, FiniteSets, TLC

\* ------------------------------------------------------------------ bounds
\* Largest number of <option> elements of one control in the pages explored.
MaxOptions == 2

\* ------------------------------------------------------------ Python values
None == <<>>
Some(v) == <<v>>

NoException == <<>>
Exc(type, origin) == [type |-> type, origin |-> origin]

\* str.join of two texts with a blank line, "{}\n\n{}".format(a, b)
BlankLine == <<"\n", "\n">>

\* re.search of a literal pattern: the pattern occurs as a contiguous run.
Contains(pattern, text) ==
    \E i \in 1..(Len(text) - Len(pattern) + 1) :
        SubSeq(text, i, i + Len(pattern) - 1) = pattern

\* Header values of an EmailMessage may hold no linefeed or carriage return.
HasLinefeed(text) == \E i \in 1..Len(text) : text[i] \in {"\n", "\r"}

\* ------------------------------------------------------------ int() / str()
Digits == <<"0", "1", "2", "3", "4", "5", "6", "7", "8", "9">>
IsDigit(c) == \E d \in 1..Len(Digits) : Digits[d] = c
DigitVal(c) == (CHOOSE d \in 1..Len(Digits) : Digits[d] = c) - 1

RECURSIVE Strip(_)
\* str.strip(): int() ignores surrounding whitespace
Strip(text) ==
    IF text = <<>> THEN text
    ELSE IF Head(text) = " " THEN Strip(Tail(text))
    ELSE IF text[Len(text)] = " " THEN Strip(SubSeq(text, 1, Len(text) - 1))
    ELSE text

RECURSIVE DigitsValue(_, _)
DigitsValue(text, acc) ==
    IF text = <<>> THEN acc
    ELSE DigitsValue(Tail(text), 10 * acc + DigitVal(Head(text)))

AllDigits(text) == text # <<>> /\ \A i \in 1..Len(text) : IsDigit(text[i])

\* int(text): [ok |-> the text is an integer literal, val |-> its value]
ParseInt(text) ==
    LET s == Strip(text)
        signed == s # <<>> /\ Head(s) \in {"-", "+"}
        body == IF signed THEN Tail(s) ELSE s
    IN  IF AllDigits(body)
        THEN [ok |-> TRUE,
              val |-> IF signed /\ Head(s) = "-" THEN 0 - DigitsValue(body, 0)
                      ELSE DigitsValue(body, 0)]
        ELSE [ok |-> FALSE, val |-> 0]

RECURSIVE StrNat(_)
StrNat(n) ==
    IF n < 10 THEN <<Digits[n + 1]>>
    ELSE StrNat(n \div 10) \o <<Digits[(n % 10) + 1]>>

\* str(n) of an int
Str(n) == IF n < 0 THEN <<"-">> \o StrNat(0 - n) ELSE StrNat(n)

\* ------------------------------------------------------------- environment
\* Final status codes the site answers with.
Statuses == {200, 404, 500}

\* Response bodies the site answers with (one text per classifier phrase, a
\* feed offer broken over two lines, and a neutral page).
Bodies ==
    { <<"OK">>,
      <<"Hiba.", "Valami", "baj", "van!">>,
      <<"A", "tevedet", "ma", "mar", "tanitottad">>,
      <<"Adok", "neki", "3", "napra", "eleg", "ennivalot">>,
      <<"Adok", "neki", "\n", "napra", "eleg", "ennivalot">> }

\* Texts of <option> elements.
OptionTexts ==
    { <<"0">>, <<"1", "2">>, <<"-", "1">>, <<" ", "7", " ">>, <<"x">> }

RECURSIVE SeqsUpTo(_, _)
\* all sequences over S of length at most n
SeqsUpTo(S, n) ==
    IF n = 0 THEN {<<>>}
    ELSE LET shorter == SeqsUpTo(S, n - 1)
         IN  shorter \cup {Append(q, x) : q \in shorter, x \in S}

\* A named form control of a page with the texts of its <option> elements.
Controls == [name : {"kaja", "pia"}, options : SeqsUpTo(OptionTexts, MaxOptions)]

\* A parsed page: its named elements in document order.
Pages == {<<>>} \cup {<<c>> : c \in Controls} \cup {<<c, d>> : c, d \in Controls}

\* The pet pages the site serves in the explored runs.
PetPages ==
    { <<>>,
      <<[name |-> "kaja", options |-> <<<<"0">>, <<" ", "7", " ">>>>]>>,
      <<[name |-> "kaja", options |-> <<<<"0">>>>], [name |-> "pia", options |-> <<<<"0">>>>]>>,
      <<[name |-> "pia", options |-> <<<<"1", "2">>, <<"-", "1">>>>],
        [name |-> "kaja", options |-> <<<<" ", "7", " ">>>>]>>,
      <<[name |-> "kaja", options |-> <<>>]>>,
      <<[name |-> "kaja", options |-> <<<<"1", "2">>>>], [name |-> "pia", options |-> <<<<"x">>>>]>> }

\* What the site answers to one request.
Reply(status, text, controls) == [status |-> status, text |-> text, controls |-> controls]
TextReplies == {Reply(s, t, <<>>) : s \in Statuses, t \in Bodies}
PageReplies == {Reply(s, <<"html">>, p) : s \in Statuses, p \in PetPages}

\* Whether the mail relay accepts the connection and login of one _mail_error.
SmtpOutcomes == {"ok", "error"}

\* The [teve] section of the configuration file: each key present or not.
TeveNames == {<<>>, <<"Macska">>}
TevePasswords == {<<"SoseTudodMeg">>}
TeveSections ==
    [name : TeveNames, pass : TevePasswords] \cup [name : TeveNames]
        \cup [pass : TevePasswords]
MailSection == [sender |-> <<"xyz@mail.com">>, pass |-> <<"NemMondomEl">>,
                recipient |-> <<"mokus@mail.com">>]
\* toml.load(args.config): the sections present in the file
Configs ==
    [teve : TeveSections, mail : {MailSection}] \cup [teve : TeveSections]
        \cup [mail : {MailSection}]

\* What the user types at a prompt.
UserInputs == {<<"Macska">>}

\* ------------------------------------------------------------ _page_text
_page_text(page) == page.text

\* BeautifulSoup(_page_text(response), "html.parser"): the named elements
Soup(response) == response.controls

\* --------------------------------------------------------------- _mail_error
\* Mutant of _mail_error: the message is handed to the relay twice.
_mail_error_twice(cfg, error_message, subject, page, smtp, origin) ==
    IF ~ ({"sender", "pass", "recipient"} \subseteq DOMAIN cfg)
    THEN [raised |-> Some(Exc("KeyError", origin)), sent |-> <<>>]
    ELSE IF smtp # "ok"
    THEN [raised |-> Some(Exc("SMTPException", origin)), sent |-> <<>>]
    ELSE IF HasLinefeed(subject)
    THEN [raised |-> Some(Exc("ValueError", origin)), sent |-> <<>>]
    ELSE LET msg == [Subject |-> subject,
                     From |-> cfg.sender,
                     To |-> cfg.recipient,
                     content |-> IF page = None THEN error_message
                                 ELSE error_message \o BlankLine \o _page_text(page[1])]
         IN  [raised |-> NoException, sent |-> <<msg, msg>>]

\* The outcome of _mail_error(cfg, error_message, subject, page): the
\* exception it raises, if any, and the messages handed to the relay.
_mail_error(cfg, error_message, subject, page, smtp, origin) ==
    IF ~ ({"sender", "pass", "recipient"} \subseteq DOMAIN cfg)
    THEN [raised |-> Some(Exc("KeyError", origin)), sent |-> <<>>]
    ELSE IF smtp # "ok"
    THEN [raised |-> Some(Exc("SMTPException", origin)), sent |-> <<>>]
    ELSE IF HasLinefeed(subject)
    THEN [raised |-> Some(Exc("ValueError", origin)), sent |-> <<>>]
    ELSE [raised |-> NoException,
          sent |-> << [Subject |-> subject,
                       From |-> cfg.sender,
                       To |-> cfg.recipient,
                       content |-> IF page = None THEN error_message
                                   ELSE error_message \o BlankLine \o _page_text(page[1])] >>]

\* -------------------------------------------------------------- TeveClubLink
SERVER_URL == <<"https://teveclub.hu">>
TEVE_LINK == <<"myteve.pet">>
TEACH_LINK == <<"tanit.pet">>
LOGOUT_LINK == <<"logout.pet">>

\* Response.raise_for_status(): client and server errors raise HTTPError
RaisesForStatus(status) == status >= 400 /\ status < 600

\* Mutant of request: the call to raise_for_status is left out.
request_noRaise(session, link, method, data, reply, origin) ==
    IF session = "None"
    THEN [issued |-> <<>>, raised |-> Some(Exc("AttributeError", origin)), response |-> None]
    ELSE [issued |-> << [method |-> method,
                         url |-> IF link = None THEN SERVER_URL
                                 ELSE SERVER_URL \o <<"/">> \o link[1],
                         data |-> data, status |-> reply.status, text |-> reply.text,
                         session |-> session] >>,
          raised |-> NoException,
          response |-> Some(reply)]

\* TeveClubLink.request(link, method=..., data=...) on session `session`,
\* the site answering `reply`: the request put on the wire (if any), the
\* exception raised (if any) and the response returned.
request(session, link, method, data, reply, origin) ==
    IF session = "None"
    THEN [issued |-> <<>>, raised |-> Some(Exc("AttributeError", origin)), response |-> None]
    ELSE LET link_url == IF link = None THEN SERVER_URL
                         ELSE SERVER_URL \o <<"/">> \o link[1]
             wire == [method |-> method, url |-> link_url, data |-> data,
                      status |-> reply.status, text |-> reply.text, session |-> session]
         IN  IF RaisesForStatus(reply.status)
             THEN [issued |-> <<wire>>, raised |-> Some(Exc("HTTPError", origin)),
                   response |-> None]
             ELSE [issued |-> <<wire>>, raised |-> NoException, response |-> Some(reply)]

\* TeveClubLink.start_session()
start_session(session) == "open"

\* TeveClubLink.close_session(): SESSION.__exit__() closes a session that exists
close_session(session) == IF session # "None" THEN "closed" ELSE session

\* Mutant of close_session: SESSION.__exit__() is called without the guard.
CloseSessionOutcome_unguarded(session, origin) ==
    IF session = "None"
    THEN [session |-> session, raised |-> Some(Exc("AttributeError", origin))]
    ELSE [session |-> "closed", raised |-> NoException]

\* TeveClubLink.close_session() as a call: the session it leaves and the
\* exception it raises.  The guard keeps it from calling __exit__ on None,
\* and closing a session raises nothing.
CloseSessionOutcome(session, origin) ==
    [session |-> close_session(session), raised |-> NoException]

\* --------------------------------------------------------------- classifiers
LoginFailurePattern == <<"Valami", "baj", "van!">>
TeachSuccessPattern == <<"A", "tevedet", "ma", "mar", "tanitottad">>
FeedPrefix == <<"Adok", "neki">>
FeedSuffix == <<"napra", "eleg", "ennivalot">>

\* Mutant of _parse_login_status: re.match for re.search (start of text only).
_parse_login_status_match(response) ==
    ~ (/\ Len(LoginFailurePattern) <= Len(_page_text(response))
       /\ SubSeq(_page_text(response), 1, Len(LoginFailurePattern)) = LoginFailurePattern)

_parse_login_status(response) == ~ Contains(LoginFailurePattern, _page_text(response))

\* Mutant of _parse_teach_success: the test is negated, as in the other two.
_parse_teach_success_negated(response) ==
    ~ Contains(TeachSuccessPattern, _page_text(response))

_parse_teach_success(response) == Contains(TeachSuccessPattern, _page_text(response))

\* re.search(r"Adok neki .* napra elég ennivalót"): "." matches no newline
FeedingIsStillPossible(text) ==
    \E i \in 1..Len(text), j \in 1..Len(text) :
        /\ i + Len(FeedPrefix) <= j
        /\ j + Len(FeedSuffix) - 1 <= Len(text)
        /\ SubSeq(text, i, i + Len(FeedPrefix) - 1) = FeedPrefix
        /\ SubSeq(text, j, j + Len(FeedSuffix) - 1) = FeedSuffix
        /\ \A k \in (i + Len(FeedPrefix))..(j - 1) : text[k] # "\n"

_parse_feed_success(response) == ~ FeedingIsStillPossible(_page_text(response))

\* ----------------------------------------------------------- Teve._max_option
\* soup.find(attrs={"name": name}): the first element with that name, or None
Find(soup, name) ==
    LET hits == {i \in 1..Len(soup) : soup[i].name = name}
    IN  IF hits = {} THEN None
        ELSE Some(soup[CHOOSE i \in hits : \A k \in hits : i <= k])

SeqMax(ints) == CHOOSE m \in {ints[i] : i \in 1..Len(ints)} :
                    \A i \in 1..Len(ints) : ints[i] <= m

\* Teve._max_option(soup, name): the value returned, or the ValueError raised
\* by int() on a text that is no integer or by max() on an empty list.
_max_option(soup, name) ==
    LET options == Find(soup, name)
    IN  IF options = None THEN [raised |-> NoException, value |-> 0]
        ELSE LET texts == options[1].options
                 parsed == [i \in 1..Len(texts) |-> ParseInt(texts[i])]
             IN  IF texts = <<>> \/ \E i \in 1..Len(texts) : ~ parsed[i].ok
                 THEN [raised |-> Some(Exc("ValueError", "etet")), value |-> 0]
                 ELSE [raised |-> NoException,
                       value |-> SeqMax([i \in 1..Len(texts) |-> parsed[i].val])]

\* Mutant of _ensure_login: a failed login is reported and then aborts the run.
_ensure_login_fatal(mail_cfg, response, smtp) ==
    IF _parse_login_status(response)
    THEN [raised |-> NoException, sent |-> <<>>]
    ELSE LET mail == _mail_error(mail_cfg, <<"Nem sikerult bejelentkezni!?">>,
                                 <<"Automatikus belepesi hiba!!!">>, Some(response),
                                 smtp, "enter")
         IN  [raised |-> IF mail.raised # NoException THEN mail.raised
                         ELSE Some(Exc("RuntimeError", "enter")),
              sent |-> mail.sent]

\* ------------------------------------------------------------ _ensure_login
_ensure_login(mail_cfg, response, smtp) ==
    IF _parse_login_status(response)
    THEN [raised |-> NoException, sent |-> <<>>]
    ELSE _mail_error(mail_cfg, <<"Nem sikerult bejelentkezni!?">>,
                     <<"Automatikus belepesi hiba!!!">>, Some(response), smtp, "enter")

\* _get_from_user_if_none(maybe_none_value, get_from_user_function)
_get_from_user_if_none(maybe_none_value, typed) ==
    IF maybe_none_value = None THEN typed ELSE maybe_none_value[1]

\* ------------------------------------------------------------------- state
VARIABLES
    pc,          \* where the script is: "init", "enter", "etet", "tanit",
                 \* "exit", "handler", "done", or "max_option"/"returned"
    config,      \* the dict toml.load returned
    teve,        \* the Teve object (Optional): name, password, logged_in, mail_cfg
    LOGIN_FORM,  \* Teve.LOGIN_FORM
    SESSION,     \* TeveClubLink.SESSION: "None", "open" or "closed"
    max_kaja,    \* etet's local (Optional): set once computed
    max_pia,     \* etet's local (Optional): set once computed
    exc,         \* the exception being propagated with its context chain
    exit_code,   \* the process's exit status (Optional)
    requests,    \* log: every HTTP request put on the wire, with its answer
    emails,      \* log: every message the mail relay accepted
    closes,      \* log: the value of SESSION at every close_session call
    soup,        \* _max_option's argument (the parsed page)
    name,        \* _max_option's argument
    result,      \* the outcome of the function called on its own (Optional)
    starts,      \* log: the value of SESSION at every start_session call
    response     \* the argument of a classifier called on its own (Optional)

vars == <<pc, config, teve, LOGIN_FORM, SESSION, max_kaja, max_pia, exc, exit_code,
          requests, emails, closes, soup, name, result, starts, response>>

self == teve[1]

\* Module state right after the imports and class definitions.
Loaded ==
    /\ teve = None
    /\ LOGIN_FORM = [x |-> <<"26">>, y |-> <<"22">>, login |-> <<"Gyere!">>]
    /\ SESSION = "None"
    /\ max_kaja = None
    /\ max_pia = None
    /\ exc = NoException
    /\ exit_code = None
    /\ requests = <<>>
    /\ emails = <<>>
    /\ closes = <<>>
    /\ starts = <<>>
    /\ result = None

\* __main__ up to the try: the configuration file has been loaded.
Init ==
    /\ pc = "init"
    /\ config \in Configs
    /\ soup = <<>>
    /\ name = "kaja"
    /\ response = None
    /\ Loaded

\* ---------------------------------------------------------------- Teve.__init__
\* teve = Teve(config)
TeveInit ==
    /\ pc = "init"
    /\ IF /\ "teve" \in DOMAIN config
          /\ {"name", "pass"} \subseteq DOMAIN config.teve
          /\ "mail" \in DOMAIN config
       THEN /\ teve' = Some([name |-> Some(config.teve.name),
                             password |-> Some(config.teve.pass),
                             logged_in |-> FALSE,
                             mail_cfg |-> config.mail])
            /\ pc' = "enter"
            /\ exc' = exc
       ELSE /\ teve' = teve
            /\ pc' = "handler"
            /\ exc' = <<Exc("KeyError", "init")>>
    /\ UNCHANGED <<config, LOGIN_FORM, SESSION, max_kaja, max_pia, exit_code,
                   requests, emails, closes, soup, name, result, starts, response>>

\* ---------------------------------------------------------------- Teve.__exit__
\* Mutant of Teve.__exit__: the logout is not guarded by logged_in.
TeveExitCall_unguarded(obj, session, reply, origin) ==
    LET r == request(session, Some(LOGOUT_LINK), "get", None, reply, origin)
    IN  IF r.raised # NoException
        THEN [obj |-> obj, session |-> session, issued |-> r.issued,
              closes |-> <<>>, raised |-> r.raised]
        ELSE [obj |-> [obj EXCEPT !.logged_in = FALSE],
              session |-> close_session(session),
              issued |-> r.issued,
              closes |-> <<session>>,
              raised |-> NoException]

\* Mutant of Teve.__exit__: the session is closed before the logout request.
TeveExitCall_closeFirst(obj, session, reply, origin) ==
    LET closed == CloseSessionOutcome(session, origin)
        r == IF obj.logged_in
             THEN request(closed.session, Some(LOGOUT_LINK), "get", None, reply, origin)
             ELSE [issued |-> <<>>, raised |-> NoException, response |-> None]
    IN  [obj |-> IF r.raised = NoException THEN [obj EXCEPT !.logged_in = FALSE] ELSE obj,
         session |-> closed.session,
         issued |-> r.issued,
         closes |-> <<session>>,
         raised |-> r.raised]

\* Teve.__exit__ on object `obj` with session `session`, the site answering
\* `reply` to the logout: the fields it leaves and the exception it raises.
\* A raising logout request leaves the method before close_session.
TeveExitCall(obj, session, reply, origin) ==
    LET r == IF obj.logged_in
             THEN request(session, Some(LOGOUT_LINK), "get", None, reply, origin)
             ELSE [issued |-> <<>>, raised |-> NoException, response |-> None]
        closed == CloseSessionOutcome(session, origin)
    IN  IF r.raised # NoException
        THEN [obj |-> obj, session |-> session, issued |-> r.issued,
              closes |-> <<>>, raised |-> r.raised]
        ELSE [obj |-> [obj EXCEPT !.logged_in = FALSE],
              session |-> closed.session,
              issued |-> r.issued,
              closes |-> <<session>>,
              raised |-> closed.raised]

LogoutReplies == {Reply(s, <<"OK">>, <<>>) : s \in Statuses}

\* --------------------------------------------------------------- Teve.__enter__
\* Mutant of __enter__: start_session is called a second time before the login.
TeveEnterTry_restart(obj, form, session, reply, typed, smtp) ==
    LET opened == start_session(session)
        filled == [f \in DOMAIN form \cup {"tevenev", "pass"} |->
                     IF f = "tevenev" THEN _get_from_user_if_none(obj.name, typed)
                     ELSE IF f = "pass" THEN _get_from_user_if_none(obj.password, typed)
                     ELSE form[f]]
        r == request(opened, None, "post", Some(filled), reply, "enter")
        ensured == IF r.raised = NoException
                   THEN _ensure_login(obj.mail_cfg, r.response[1], smtp)
                   ELSE [raised |-> r.raised, sent |-> <<>>]
    IN  [obj |-> IF ensured.raised = NoException
                 THEN [obj EXCEPT !.logged_in = TRUE] ELSE obj,
         form |-> filled,
         session |-> opened,
         started |-> <<session, start_session(session)>>,
         issued |-> r.issued,
         sent |-> ensured.sent,
         raised |-> ensured.raised]

\* Mutant of __enter__: logged_in takes the verdict of _parse_login_status.
TeveEnterTry_verdict(obj, form, session, reply, typed, smtp) ==
    LET opened == start_session(session)
        filled == [f \in DOMAIN form \cup {"tevenev", "pass"} |->
                     IF f = "tevenev" THEN _get_from_user_if_none(obj.name, typed)
                     ELSE IF f = "pass" THEN _get_from_user_if_none(obj.password, typed)
                     ELSE form[f]]
        r == request(opened, None, "post", Some(filled), reply, "enter")
        ensured == IF r.raised = NoException
                   THEN _ensure_login(obj.mail_cfg, r.response[1], smtp)
                   ELSE [raised |-> r.raised, sent |-> <<>>]
    IN  [obj |-> IF ensured.raised = NoException
                 THEN [obj EXCEPT !.logged_in = _parse_login_status(r.response[1])]
                 ELSE obj,
         form |-> filled,
         session |-> opened,
         started |-> <<session>>,
         issued |-> r.issued,
         sent |-> ensured.sent,
         raised |-> ensured.raised]

\* The try block of __enter__: what it leaves and the exception that ends it.
TeveEnterTry(obj, form, session, reply, typed, smtp) ==
    LET opened == start_session(session)
        filled == [f \in DOMAIN form \cup {"tevenev", "pass"} |->
                     IF f = "tevenev" THEN _get_from_user_if_none(obj.name, typed)
                     ELSE IF f = "pass" THEN _get_from_user_if_none(obj.password, typed)
                     ELSE form[f]]
        r == request(opened, None, "post", Some(filled), reply, "enter")
        ensured == IF r.raised = NoException
                   THEN _ensure_login(obj.mail_cfg, r.response[1], smtp)
                   ELSE [raised |-> r.raised, sent |-> <<>>]
    IN  [obj |-> IF ensured.raised = NoException
                 THEN [obj EXCEPT !.logged_in = TRUE] ELSE obj,
         form |-> filled,
         session |-> opened,
         started |-> <<session>>,
         issued |-> r.issued,
         sent |-> ensured.sent,
         raised |-> ensured.raised]

\* with teve: -- Teve.__enter__, with its except clause calling __exit__
TeveEnter ==
    /\ pc = "enter"
    /\ \E reply \in TextReplies, typed \in UserInputs, smtp \in SmtpOutcomes,
          bye \in LogoutReplies :
        LET try == TeveEnterTry(self, LOGIN_FORM, SESSION, reply, typed, smtp)
            out == TeveExitCall(try.obj, try.session, bye, "enter")
        IN  IF try.raised = NoException
            THEN /\ teve' = Some(try.obj)
                 /\ LOGIN_FORM' = try.form
                 /\ SESSION' = try.session
                 /\ requests' = requests \o try.issued
                 /\ emails' = emails \o try.sent
                 /\ starts' = starts \o try.started
                 /\ pc' = "etet"
                 /\ UNCHANGED <<exc, closes>>
            ELSE /\ teve' = Some(out.obj)
                 /\ LOGIN_FORM' = try.form
                 /\ SESSION' = out.session
                 /\ requests' = requests \o try.issued \o out.issued
                 /\ emails' = emails \o try.sent
                 /\ starts' = starts \o try.started
                 /\ closes' = closes \o out.closes
                 /\ exc' = out.raised \o try.raised \o exc
                 /\ pc' = "handler"
    /\ UNCHANGED <<config, max_kaja, max_pia, exit_code, soup, name, result, response>>

\* -------------------------------------------------------------------- Teve.etet
\* Mutant of the hunger test: "or" for "and".
NotHungry_either(kaja, pia) == kaja = 0 \/ pia = 0

\* if max_kaja == 0 and max_pia == 0: nothing to feed
NotHungry(kaja, pia) == kaja = 0 /\ pia = 0

\* Mutant of Teve.etet: an exception of the feed-failure mail is swallowed.
EtetCall_swallow(obj, session, pageReply, feedReply, smtp) ==
    LET page == request(session, Some(TEVE_LINK), "get", None, pageReply, "etet")
        doc == Soup(page.response[1])
        kaja == _max_option(doc, "kaja")
        pia == _max_option(doc, "pia")
        form_data == [kaja |-> Str(kaja.value), pia |-> Str(pia.value),
                      etet |-> <<"Mehet!">>]
        feed == request(session, Some(TEVE_LINK), "post", Some(form_data), feedReply, "etet")
        mail == _mail_error(obj.mail_cfg, <<"Nem sikerult az etetes!">>,
                            <<"Automatikus etetesi kalamajka!">>, feed.response, smtp, "etet")
    IN  IF page.raised # NoException
        THEN [issued |-> page.issued, sent |-> <<>>, max_kaja |-> None, max_pia |-> None,
              raised |-> page.raised]
        ELSE IF kaja.raised # NoException
        THEN [issued |-> page.issued, sent |-> <<>>, max_kaja |-> None, max_pia |-> None,
              raised |-> kaja.raised]
        ELSE IF pia.raised # NoException
        THEN [issued |-> page.issued, sent |-> <<>>, max_kaja |-> Some(kaja.value),
              max_pia |-> None, raised |-> pia.raised]
        ELSE IF NotHungry(kaja.value, pia.value)
        THEN [issued |-> page.issued, sent |-> <<>>, max_kaja |-> Some(kaja.value),
              max_pia |-> Some(pia.value), raised |-> NoException]
        ELSE IF feed.raised # NoException
        THEN [issued |-> page.issued \o feed.issued, sent |-> <<>>,
              max_kaja |-> Some(kaja.value), max_pia |-> Some(pia.value),
              raised |-> feed.raised]
        ELSE IF _parse_feed_success(feed.response[1])
        THEN [issued |-> page.issued \o feed.issued, sent |-> <<>>,
              max_kaja |-> Some(kaja.value), max_pia |-> Some(pia.value),
              raised |-> NoException]
        ELSE [issued |-> page.issued \o feed.issued, sent |-> mail.sent,
              max_kaja |-> Some(kaja.value), max_pia |-> Some(pia.value),
              raised |-> NoException]

\* Teve.etet(): the requests it issues, the mail it sends, its locals once
\* computed, and the exception that ends it (if any).
EtetCall(obj, session, pageReply, feedReply, smtp) ==
    LET page == request(session, Some(TEVE_LINK), "get", None, pageReply, "etet")
        doc == Soup(page.response[1])
        kaja == _max_option(doc, "kaja")
        pia == _max_option(doc, "pia")
        form_data == [kaja |-> Str(kaja.value), pia |-> Str(pia.value),
                      etet |-> <<"Mehet!">>]
        feed == request(session, Some(TEVE_LINK), "post", Some(form_data), feedReply, "etet")
        mail == _mail_error(obj.mail_cfg, <<"Nem sikerult az etetes!">>,
                            <<"Automatikus etetesi kalamajka!">>, feed.response, smtp, "etet")
    IN  IF page.raised # NoException
        THEN [issued |-> page.issued, sent |-> <<>>, max_kaja |-> None, max_pia |-> None,
              raised |-> page.raised]
        ELSE IF kaja.raised # NoException
        THEN [issued |-> page.issued, sent |-> <<>>, max_kaja |-> None, max_pia |-> None,
              raised |-> kaja.raised]
        ELSE IF pia.raised # NoException
        THEN [issued |-> page.issued, sent |-> <<>>, max_kaja |-> Some(kaja.value),
              max_pia |-> None, raised |-> pia.raised]
        ELSE IF NotHungry(kaja.value, pia.value)
        THEN [issued |-> page.issued, sent |-> <<>>, max_kaja |-> Some(kaja.value),
              max_pia |-> Some(pia.value), raised |-> NoException]
        ELSE IF feed.raised # NoException
        THEN [issued |-> page.issued \o feed.issued, sent |-> <<>>,
              max_kaja |-> Some(kaja.value), max_pia |-> Some(pia.value),
              raised |-> feed.raised]
        ELSE IF _parse_feed_success(feed.response[1])
        THEN [issued |-> page.issued \o feed.issued, sent |-> <<>>,
              max_kaja |-> Some(kaja.value), max_pia |-> Some(pia.value),
              raised |-> NoException]
        ELSE [issued |-> page.issued \o feed.issued, sent |-> mail.sent,
              max_kaja |-> Some(kaja.value), max_pia |-> Some(pia.value),
              raised |-> mail.raised]

\* teve.etet() inside the with block; an exception leaves the block
Etet ==
    /\ pc = "etet"
    /\ \E pageReply \in PageReplies, feedReply \in TextReplies, smtp \in SmtpOutcomes :
        LET out == EtetCall(self, SESSION, pageReply, feedReply, smtp)
        IN  /\ requests' = requests \o out.issued
            /\ emails' = emails \o out.sent
            /\ max_kaja' = out.max_kaja
            /\ max_pia' = out.max_pia
            /\ exc' = out.raised \o exc
            /\ pc' = IF out.raised = NoException THEN "tanit" ELSE "exit"
    /\ UNCHANGED <<config, teve, LOGIN_FORM, SESSION, exit_code, closes, soup, name, result, starts, response>>

\* Mutant of Teve.tanit: a teach request answered with an error is retried.
TanitCall_retry(obj, session, reply, smtp) ==
    LET form_data == [farmdoit |-> <<"tanit">>, learn |-> <<"Tanulj teve!">>]
        teach == request(session, Some(TEACH_LINK), "post", Some(form_data), reply, "tanit")
        mail == _mail_error(obj.mail_cfg, <<"Nem sikerult a tanitas!">>,
                            <<"Automatikus tanitasi fennforgattyu!">>, teach.response,
                            smtp, "tanit")
    IN  IF teach.raised # NoException
        THEN [issued |-> teach.issued \o teach.issued, sent |-> <<>>, raised |-> teach.raised]
        ELSE IF _parse_teach_success(teach.response[1])
        THEN [issued |-> teach.issued, sent |-> <<>>, raised |-> NoException]
        ELSE [issued |-> teach.issued, sent |-> mail.sent, raised |-> mail.raised]

\* ------------------------------------------------------------------- Teve.tanit
TanitCall(obj, session, reply, smtp) ==
    LET form_data == [farmdoit |-> <<"tanit">>, learn |-> <<"Tanulj teve!">>]
        teach == request(session, Some(TEACH_LINK), "post", Some(form_data), reply, "tanit")
        mail == _mail_error(obj.mail_cfg, <<"Nem sikerult a tanitas!">>,
                            <<"Automatikus tanitasi fennforgattyu!">>, teach.response,
                            smtp, "tanit")
    IN  IF teach.raised # NoException
        THEN [issued |-> teach.issued, sent |-> <<>>, raised |-> teach.raised]
        ELSE IF _parse_teach_success(teach.response[1])
        THEN [issued |-> teach.issued, sent |-> <<>>, raised |-> NoException]
        ELSE [issued |-> teach.issued, sent |-> mail.sent, raised |-> mail.raised]

\* teve.tanit() inside the with block; the block ends after it either way
Tanit ==
    /\ pc = "tanit"
    /\ \E reply \in TextReplies, smtp \in SmtpOutcomes :
        LET out == TanitCall(self, SESSION, reply, smtp)
        IN  /\ requests' = requests \o out.issued
            /\ emails' = emails \o out.sent
            /\ exc' = out.raised \o exc
            /\ pc' = "exit"
    /\ UNCHANGED <<config, teve, LOGIN_FORM, SESSION, max_kaja, max_pia, exit_code,
                   closes, soup, name, result, starts, response>>

\* ------------------------------------------------------- leaving the with block
\* Teve.__exit__ called by the with statement; it returns None, so an
\* exception of the block propagates, and one it raises replaces it.
TeveExit ==
    /\ pc = "exit"
    /\ \E bye \in LogoutReplies :
        LET out == TeveExitCall(self, SESSION, bye, "exit")
        IN  /\ teve' = Some(out.obj)
            /\ SESSION' = out.session
            /\ requests' = requests \o out.issued
            /\ closes' = closes \o out.closes
            /\ exc' = out.raised \o exc
            /\ IF out.raised \o exc = NoException
               THEN pc' = "done" /\ exit_code' = Some(0)
               ELSE pc' = "handler" /\ exit_code' = exit_code
    /\ UNCHANGED <<config, LOGIN_FORM, max_kaja, max_pia, emails, soup, name, result, starts, response>>

\* ------------------------------------------------------ __main__'s except clause
\* str(exc)
ExcStr(e) == <<e.type, e.origin>>

\* except Exception as exc: _mail_error(config["mail"], ...); raise
\* The message text is passed as error_message and the text carrying the
\* exception as subject.  The process ends with the uncaught exception.
MainExcept(cfg, pending, smtp) ==
    IF "mail" \notin DOMAIN cfg
    THEN [raised |-> Some(Exc("KeyError", "main")), sent |-> <<>>]
    ELSE _mail_error(cfg.mail, <<"Ismeretlen fatalas hiba tortent!!!">>,
                     <<"Elpusztult az egesz!!! AAAA!!!">> \o BlankLine \o ExcStr(pending[1]),
                     None, smtp, "main")

Handler ==
    /\ pc = "handler"
    /\ \E smtp \in SmtpOutcomes :
        LET out == MainExcept(config, exc, smtp)
        IN  /\ emails' = emails \o out.sent
            /\ exc' = out.raised \o exc
    /\ exit_code' = Some(1)
    /\ pc' = "done"
    /\ UNCHANGED <<config, teve, LOGIN_FORM, SESSION, max_kaja, max_pia, requests,
                   closes, soup, name, result, starts, response>>

Next == TeveInit \/ TeveEnter \/ Etet \/ Tanit \/ TeveExit \/ Handler

Spec == Init /\ [][Next]_vars

\* ------------------------------------------------- _max_option on its own
DefaultConfig == [teve |-> [name |-> <<"Macska">>, pass |-> <<"SoseTudodMeg">>],
                  mail |-> MailSection]

InitMaxOption ==
    /\ pc = "max_option"
    /\ config = DefaultConfig
    /\ soup \in Pages
    /\ name \in {"kaja", "pia"}
    /\ response = None
    /\ Loaded

\* result = Teve._max_option(soup, name)
MaxOptionCall ==
    /\ pc = "max_option"
    /\ result' = Some(_max_option(soup, name))
    /\ pc' = "returned"
    /\ UNCHANGED <<config, teve, LOGIN_FORM, SESSION, max_kaja, max_pia, exc, exit_code,
                   requests, emails, closes, soup, name, starts, response>>

NextMaxOption == MaxOptionCall

SpecMaxOption == InitMaxOption /\ [][NextMaxOption]_vars

\* =================================================================== claims
\* ------------------------------------------------ reading the request log
LoginUrl == SERVER_URL
PageUrl == SERVER_URL \o <<"/">> \o TEVE_LINK
TeachUrl == SERVER_URL \o <<"/">> \o TEACH_LINK
LogoutUrl == SERVER_URL \o <<"/">> \o LOGOUT_LINK

Kind(r) ==
    IF r.method = "post" /\ r.url = LoginUrl THEN "login"
    ELSE IF r.method = "get" /\ r.url = PageUrl THEN "page"
    ELSE IF r.method = "post" /\ r.url = PageUrl THEN "feed"
    ELSE IF r.method = "post" /\ r.url = TeachUrl THEN "teach"
    ELSE IF r.method = "get" /\ r.url = LogoutUrl THEN "logout"
    ELSE "other"

\* the fixed order of the workflow's requests
Order == <<"login", "page", "feed", "teach", "logout">>
Rank(kind) == IF \E i \in 1..Len(Order) : Order[i] = kind
              THEN CHOOSE i \in 1..Len(Order) : Order[i] = kind
              ELSE 0

Indexes(kind) == {i \in 1..Len(requests) : Kind(requests[i]) = kind}
Issued(kind) == Indexes(kind) # {}
Answered(kind) == {i \in Indexes(kind) : ~ RaisesForStatus(requests[i].status)}
Kinds == [i \in 1..Len(requests) |-> Kind(requests[i])]

\* the answered request of a kind whose body holds / does not hold a phrase
LoginClassifiedOk == \E i \in Answered("login") : ~ Contains(LoginFailurePattern, requests[i].text)
LoginClassifiedFailed == \E i \in Answered("login") : Contains(LoginFailurePattern, requests[i].text)
FeedClassifiedFailed == \E i \in Answered("feed") : FeedingIsStillPossible(requests[i].text)
TeachClassifiedFailed == \E i \in Answered("teach") : ~ Contains(TeachSuccessPattern, requests[i].text)

\* ---------------------------------------------------- reading the mail log
LoginMails == {i \in 1..Len(emails) : emails[i].Subject = <<"Automatikus belepesi hiba!!!">>}
FeedMails == {i \in 1..Len(emails) : emails[i].Subject = <<"Automatikus etetesi kalamajka!">>}
TeachMails == {i \in 1..Len(emails) : emails[i].Subject = <<"Automatikus tanitasi fennforgattyu!">>}
FatalMails == {i \in 1..Len(emails) :
                 emails[i].content = <<"Ismeretlen fatalas hiba tortent!!!">>}

\* ------------------------------------------------ reading the exception chain
Raised(origin) == \E i \in 1..Len(exc) : exc[i].origin = origin
RaisedType(type) == \E i \in 1..Len(exc) : exc[i].type = type
Done == pc = "done"

\* C1: in every run that entered the with block (a session was created), on
\* every exit path, close_session has been executed exactly once when the
\* process terminates.
C1_SessionReleasedOnce ==
    (Done /\ SESSION # "None") => Len(closes) = 1

\* C2 as stated: a logout request is issued if and only if the login
\* response was classified as a successful login.
C2_LogoutIffLoginClassifiedOk ==
    Done => (Issued("logout") <=> LoginClassifiedOk)

\* C2 amended: a logout request is issued if and only if the login POST was
\* answered with a success status and __enter__ raised nothing, that is the
\* response was classified as a login or the login-failure mail was sent;
\* no logout is ever issued otherwise.
C2_LogoutIffLoggedIn ==
    /\ Issued("logout") => (LoginClassifiedOk \/ (LoginClassifiedFailed /\ LoginMails # {}))
    /\ Done => ((LoginClassifiedOk \/ (LoginClassifiedFailed /\ LoginMails # {}))
                    => Issued("logout"))

C2_Witness ==
    Done /\ LoginClassifiedFailed /\ LoginMails # {} /\ Issued("logout")

\* C3: whenever an exception escapes the workflow (and the configuration has
\* its mail section and the relay refuses nothing), the top-level handler has
\* sent exactly one email when the process ends, and the exit status is
\* non-zero.
C3_FatalMailSentOnce ==
    (Done /\ exc # NoException /\ "mail" \in DOMAIN config /\ ~ RaisedType("SMTPException")) =>
        (Cardinality(FatalMails) = 1 /\ exit_code = Some(1))

\* C4 as stated: when the login response is classified as a failed login, one
\* login-failure email is sent and the pet page GET and the teach POST are
\* still issued.
C4_LoginFailureNeverAborts ==
    (Done /\ LoginClassifiedFailed) =>
        (Cardinality(LoginMails) = 1 /\ Issued("page") /\ Issued("teach"))

\* C4 amended: when the login response is classified as a failed login, at
\* most one login-failure email is sent, carrying the message and the
\* response body; it is missing only when the notifier raised in __enter__,
\* and once it is sent the workflow goes on: the pet page GET is issued, and
\* the teach POST too unless the feed step raises.
C4_LoginFailureIsNotFatal ==
    (pc \notin {"init", "enter"} /\ LoginClassifiedFailed) =>
        /\ Cardinality(LoginMails) <= 1
        /\ \A m \in LoginMails : \E i \in Answered("login") :
              emails[m].content =
                  <<"Nem sikerult bejelentkezni!?">> \o BlankLine \o requests[i].text
        /\ LoginMails = {} => Raised("enter")
        /\ LoginMails # {} =>
              /\ ~ Raised("enter")
              /\ pc \notin {"etet", "handler"} => Issued("page")
              /\ (Done /\ ~ Raised("etet")) => Issued("teach")

C4_Witness ==
    Done /\ LoginClassifiedFailed /\ LoginMails # {} /\ Issued("page") /\ Issued("teach")

\* C5: a feed POST is issued if and only if both maxima were computed and at
\* least one is non-zero; with both maxima 0 there is no feed POST and no
\* feed email; the form of a feed POST carries exactly the two maxima.
C5_FeedPostIffHungry ==
    /\ Issued("feed") <=>
          (max_kaja # None /\ max_pia # None /\ (max_kaja[1] # 0 \/ max_pia[1] # 0))
    /\ (max_kaja = Some(0) /\ max_pia = Some(0)) => (~ Issued("feed") /\ FeedMails = {})
    /\ FeedMails # {} => Issued("feed")
    /\ \A i \in Indexes("feed") :
          LET form == requests[i].data[1]
          IN  /\ DOMAIN form = {"kaja", "pia", "etet"}
              /\ ParseInt(form.kaja) = [ok |-> TRUE, val |-> max_kaja[1]]
              /\ ParseInt(form.pia) = [ok |-> TRUE, val |-> max_pia[1]]
              /\ form.etet = <<"Mehet!">>

C5_Witness ==
    Done /\ Issued("feed") /\ max_kaja = Some(7) /\ max_pia = Some(12)

\* C6: when every request is answered with a success status, the maxima of
\* the pet page are computed and not both zero, and the login, feed and
\* teach responses are classified as successes, the run issues exactly login
\* POST, pet page GET, feed POST, teach POST, logout GET, sends no email and
\* ends with exit status 0.
HappyRun ==
    /\ \A i \in 1..Len(requests) : ~ RaisesForStatus(requests[i].status)
    /\ max_kaja # None /\ max_pia # None /\ (max_kaja[1] # 0 \/ max_pia[1] # 0)
    /\ ~ LoginClassifiedFailed
    /\ ~ FeedClassifiedFailed
    /\ ~ TeachClassifiedFailed

C6_HappyPath ==
    (Done /\ HappyRun) =>
        (Kinds = Order /\ emails = <<>> /\ exit_code = Some(0) /\ exc = NoException)

C6_Witness ==
    Done /\ HappyRun /\ Kinds = Order /\ emails = <<>> /\ exit_code = Some(0)

\* C7: a site-logic failure of the feed or teach step whose notification is
\* accepted is recovered locally: exactly one email of that step is sent, the
\* step raises nothing, after a feed failure the teach POST is issued, and
\* after a teach failure the logout is issued and the session is released.
C7_SiteFailureRecovered ==
    (Done /\ ~ RaisedType("SMTPException")) =>
        /\ FeedClassifiedFailed =>
              (Cardinality(FeedMails) = 1 /\ ~ Raised("etet") /\ Issued("teach"))
        /\ TeachClassifiedFailed =>
              (Cardinality(TeachMails) = 1 /\ ~ Raised("tanit") /\ Issued("logout")
                  /\ Len(closes) = 1)

C9_RequestOrder ==
    /\ \A i \in 1..Len(requests) : Rank(Kind(requests[i])) # 0
    /\ \A i, j \in 1..Len(requests) :
          i < j => Rank(Kind(requests[i])) < Rank(Kind(requests[j]))
    /\ \A i \in Indexes("logout") : i = Len(requests)

C9_Witness ==
    Done /\ Len(requests) = Len(Order) /\ Kinds = Order

\* C10: _max_option returns a value for every page; when an element with the
\* name is present the value is the maximum of the integer values of its
\* option texts, and when none is present the value is 0.
Present == \E i \in 1..Len(soup) : soup[i].name = name
OptionInts ==
    LET first == CHOOSE i \in 1..Len(soup) :
                    soup[i].name = name /\ \A k \in 1..(i - 1) : soup[k].name # name
        texts == soup[first].options
    IN  {ParseInt(texts[i]).val : i \in {k \in 1..Len(texts) : ParseInt(texts[k]).ok}}

C10_MaxOptionTotal ==
    pc = "returned" =>
        /\ result[1].raised = NoException
        /\ ~ Present => result[1].value = 0
        /\ Present => \A v \in OptionInts : v <= result[1].value
        /\ (Present /\ OptionInts # {}) => result[1].value \in OptionInts

\* C11: a configuration whose [teve] section lacks name or pass, or holds an
\* empty one, never leads to the error path of Teve.__init__: the login POST
\* is issued, and it carries a name and a password that are not empty.
C11_MissingCredentialsPrompted ==
    (Done /\ "teve" \in DOMAIN config /\ "mail" \in DOMAIN config) =>
        /\ ~ Raised("init")
        /\ \E i \in Indexes("login") :
              /\ requests[i].data[1].tevenev # <<>>
              /\ requests[i].data[1].pass # <<>>

\* C12: every failure is reported at most once: at most one login-failure,
\* one feed-failure, one teach-failure and one top-level email are sent, each
\* only for a failure that occurred (a classifier failure on an answered
\* request, or a raised exception), and no other email is sent.
C12_ReportedAtMostOnce ==
    /\ Cardinality(LoginMails) <= 1
    /\ Cardinality(FeedMails) <= 1
    /\ Cardinality(TeachMails) <= 1
    /\ Cardinality(FatalMails) <= 1
    /\ LoginMails # {} => LoginClassifiedFailed
    /\ FeedMails # {} => FeedClassifiedFailed
    /\ TeachMails # {} => TeachClassifiedFailed
    /\ FatalMails # {} => exc # NoException
    /\ \A i \in 1..Len(emails) : i \in LoginMails \cup FeedMails \cup TeachMails \cup FatalMails
    /\ Cardinality(Answered("login")) <= 1
    /\ Cardinality(Answered("feed")) <= 1
    /\ Cardinality(Answered("teach")) <= 1

C12_Witness ==
    Done /\ LoginMails # {} /\ FeedMails # {} /\ TeachMails # {} /\ Len(emails) = 3

\* ------------------------------------------- TeveClubLink on its own
\* Largest number of calls of each method of TeveClubLink explored.
MaxCalls == 2

LinkReplies == {Reply(s, <<"OK">>, <<>>) : s \in Statuses}

\* A Teve object as __init__ leaves it.
NewTeve == [name |-> Some(DefaultConfig.teve.name),
            password |-> Some(DefaultConfig.teve.pass),
            logged_in |-> FALSE,
            mail_cfg |-> DefaultConfig.mail]

InitLink ==
    /\ pc = "link"
    /\ config = DefaultConfig
    /\ soup = <<>>
    /\ name = "kaja"
    /\ response = None
    /\ Loaded

\* TeveClubLink.start_session()
LinkStart ==
    /\ pc = "link"
    /\ Len(starts) < MaxCalls
    /\ SESSION' = start_session(SESSION)
    /\ starts' = Append(starts, SESSION)
    /\ UNCHANGED <<pc, config, teve, LOGIN_FORM, max_kaja, max_pia, exc, exit_code,
                   requests, emails, closes, soup, name, result, response>>

\* TeveClubLink.close_session()
LinkClose ==
    /\ pc = "link"
    /\ Len(closes) < MaxCalls
    /\ LET closed == CloseSessionOutcome(SESSION, "close_session")
       IN  /\ SESSION' = closed.session
           /\ exc' = closed.raised \o exc
    /\ closes' = Append(closes, SESSION)
    /\ UNCHANGED <<pc, config, teve, LOGIN_FORM, max_kaja, max_pia, exit_code,
                   requests, emails, starts, soup, name, result, response>>

\* TeveClubLink.request(link)
LinkRequest ==
    /\ pc = "link"
    /\ Len(requests) < MaxCalls
    /\ Len(exc) < MaxCalls
    /\ \E link \in {None, Some(LOGOUT_LINK)}, reply \in LinkReplies :
        LET r == request(SESSION, link, "get", None, reply, "request")
        IN  /\ requests' = requests \o r.issued
            /\ exc' = r.raised \o exc
    /\ UNCHANGED <<pc, config, teve, LOGIN_FORM, SESSION, max_kaja, max_pia, exit_code,
                   emails, closes, starts, soup, name, result, response>>

\* The except clause of Teve.__enter__ entered with an exception raised
\* before start_session has set SESSION: self.__exit__(...) and raise.
LinkEnterExcept ==
    /\ pc = "link"
    /\ Len(closes) < MaxCalls
    /\ Len(exc) < MaxCalls
    /\ \E bye \in LogoutReplies :
        LET out == TeveExitCall(NewTeve, SESSION, bye, "enter")
        IN  /\ SESSION' = out.session
            /\ requests' = requests \o out.issued
            /\ closes' = closes \o out.closes
            /\ exc' = out.raised \o <<Exc("Exception", "start_session")>> \o exc
    /\ UNCHANGED <<pc, config, teve, LOGIN_FORM, max_kaja, max_pia, exit_code,
                   emails, starts, soup, name, result, response>>

NextLink == LinkStart \/ LinkClose \/ LinkRequest \/ LinkEnterExcept

SpecLink == InitLink /\ [][NextLink]_vars

\* C13: a close_session call made while SESSION is unset raises nothing and
\* changes nothing (SESSION stays unset, no request, no mail, no new
\* session); when the call is the one of __enter__'s except clause, the
\* exception propagated afterwards is the original one.
C13_CloseUnsetSessionIsSafe ==
    [][(SESSION = "None" /\ closes' # closes) =>
          /\ SESSION' = "None"
          /\ closes' = Append(closes, "None")
          /\ requests' = requests
          /\ emails' = emails
          /\ starts' = starts
          /\ \/ exc' = exc
             \/ exc' = <<Exc("Exception", "start_session")>> \o exc]_vars

C13_Witness ==
    /\ pc = "link"
    /\ SESSION = "None"
    /\ \E i \in 1..Len(closes) : closes[i] = "None"
    /\ exc # NoException /\ exc[1] = Exc("Exception", "start_session")

\* C14: at most one session is open at any time: start_session is never
\* called while the session it made before is still open, and the sessions
\* made and not yet released number at most one.
OpenSessions == Len(starts) - Cardinality({i \in 1..Len(closes) : closes[i] = "open"})

C14_AtMostOneSession ==
    /\ \A i \in 1..Len(starts) : starts[i] # "open"
    /\ OpenSessions \in {0, 1}
    /\ SESSION = "open" <=> OpenSessions = 1

C14_Witness ==
    pc = "tanit" /\ SESSION = "open" /\ OpenSessions = 1 /\ Len(starts) = 1

\* ------------------------------------------- _parse_login_status on its own
\* Longest response body explored, in words.
MaxBodyLen == 4

\* Words of the response bodies explored.
BodyWords == {"Valami", "baj", "van!", "valami", "x"}

InitLoginStatus ==
    /\ pc = "classify"
    /\ config = DefaultConfig
    /\ soup = <<>>
    /\ name = "kaja"
    /\ response \in {Some(Reply(200, t, <<>>)) : t \in SeqsUpTo(BodyWords, MaxBodyLen)}
    /\ Loaded

\* result = _parse_login_status(response)
LoginStatusCall ==
    /\ pc = "classify"
    /\ result' = Some(_parse_login_status(response[1]))
    /\ pc' = "classified"
    /\ UNCHANGED <<config, teve, LOGIN_FORM, SESSION, max_kaja, max_pia, exc, exit_code,
                   requests, emails, closes, soup, name, starts, response>>

NextLoginStatus == LoginStatusCall

SpecLoginStatus == InitLoginStatus /\ [][NextLoginStatus]_vars

\* C15: _parse_login_status returns false for every body in which the three
\* words of the failure phrase follow one another, true for every other
\* body, and leaves the session and the workflow state as they were.
HoldsFailurePhrase(text) ==
    \E i \in 1..Len(text) :
        /\ i + 2 <= Len(text)
        /\ text[i] = "Valami"
        /\ text[i + 1] = "baj"
        /\ text[i + 2] = "van!"

C15_LoginStatusClassifier ==
    pc = "classified" =>
        /\ result = Some(~ HoldsFailurePhrase(response[1].text))
        /\ SESSION = "None" /\ teve = None /\ exc = NoException
        /\ requests = <<>> /\ emails = <<>> /\ closes = <<>> /\ starts = <<>>

C15_Witness ==
    /\ pc = "classified"
    /\ result = Some(FALSE)
    /\ response[1].text = <<"x", "Valami", "baj", "van!">>

\* ------------------------------------------------------------- C16 .. C18
\* an exception of the given type raised in the given step
RaisedIn(type, origin) == \E i \in 1..Len(exc) : exc[i] = Exc(type, origin)

\* C16: when the mail reporting a login, feed or teach failure is not sent
\* (the notifier raised), the notifier's exception is in the chain raised
\* from that step, no feed or teach request follows, the top-level handler
\* attempts its own notification, and the process ends with status 1
\* whether or not that notification raises too.
C16_NotifierFailurePropagates ==
    /\ (LoginClassifiedFailed /\ LoginMails = {}) =>
          /\ pc \in {"handler", "done"}
          /\ RaisedIn("SMTPException", "enter")
          /\ ~ Issued("page") /\ ~ Issued("feed") /\ ~ Issued("teach")
    /\ (FeedClassifiedFailed /\ FeedMails = {}) =>
          /\ pc \in {"exit", "handler", "done"}
          /\ RaisedIn("SMTPException", "etet")
          /\ ~ Issued("teach")
    /\ (TeachClassifiedFailed /\ TeachMails = {}) =>
          /\ pc \in {"exit", "handler", "done"}
          /\ RaisedIn("SMTPException", "tanit")
    /\ (Done /\ \/ LoginClassifiedFailed /\ LoginMails = {}
                \/ FeedClassifiedFailed /\ FeedMails = {}
                \/ TeachClassifiedFailed /\ TeachMails = {}) =>
          /\ Raised("main") \/ FatalMails # {}
          /\ exit_code = Some(1)

C16_Witness ==
    /\ Done
    /\ FeedClassifiedFailed /\ FeedMails = {}
    /\ RaisedIn("SMTPException", "etet")
    /\ Raised("main")
    /\ exit_code = Some(1)

\* C17: every request put on the wire was issued on an open session: none
\* before start_session has run, and none once close_session has closed the
\* session.
C17_RequestsOnOpenSession ==
    /\ [](\A i \in 1..Len(requests) : requests[i].session = "open")
    /\ [](requests # <<>> => starts # <<>>)
    /\ [][(\E i \in 1..Len(closes) : closes[i] = "open") => requests' = requests]_vars

C17_Witness ==
    /\ Done
    /\ SESSION = "closed"
    /\ Kinds = <<"login", "page", "feed", "teach", "logout">>

\* an exception raised by a request / by a notification (the handler's included)
RequestRaised == RaisedType("HTTPError") \/ RaisedType("AttributeError")
NotifierRaised == RaisedType("SMTPException") \/ Raised("main")

====
